---- MODULE Spec2Model ----
(***************************************************************************)
(* Model of the flat-file JSON document store (src/unnamed/part_000):      *)
(* handle_api_request and its helpers, driven through do_session by the    *)
(* accept loop of main.  One file of the storage directory is modelled;   *)
(* its content is the text on disk.  RapidJSON values are modelled with   *)
(* the library's semantics: an object is an ordered member list that may  *)
(* hold the same name twice, lookups return the first match, AddMember    *)
(* appends without looking, RemoveMember moves the last member into the   *)
(* freed slot, and PushBack/AddMember move their argument (leaving Null). *)
(***************************************************************************)
EXTENDS Integers, Sequences, FiniteSets, TLC

VARIABLES build, fs, server, req, resp, io, pc, conn, call

vars == <<build, fs, server, req, resp, io, pc, conn, call>>

(***************************************************************************)
(* Bounds of the model.                                                    *)
(***************************************************************************)
\* a create is explored only while the target array holds fewer items
MaxItems == 2
\* a create is explored only while the id it allocates is at most this
MaxId == 2
\* a request is explored only while the root object keeps at most this many members
MaxRootMembers == 3
\* the clients that connect to the server
MaxClients == 2
\* the members of an object handed to merge_json_objects on its own
MaxMembers == 2
\* the items of an array handed to get_max_id on its own
MaxArrayLen == 3

\* the largest and the smallest value of the C++ int that holds an id
INT_MAX == 2147483647

INT_MIN == (-INT_MAX) - 1

(***************************************************************************)
(* JSON values (rapidjson::Value).                                         *)
(***************************************************************************)
JNull == [t |-> "null", i |-> 0, s |-> "", e |-> <<>>]

JInt(n) == [t |-> "int", i |-> n, s |-> "", e |-> <<>>]

JStr(x) == [t |-> "string", i |-> 0, s |-> x, e |-> <<>>]

JArr(xs) == [t |-> "array", i |-> 0, s |-> "", e |-> xs]

JObj(ms) == [t |-> "object", i |-> 0, s |-> "", e |-> ms]

\* a name/value pair of an object
Member(n, v) == [name |-> n, value |-> v]

\* a null pointer (const Value* = nullptr), or a field the request lacks
NoValue == [t |-> "none", i |-> 0, s |-> "", e |-> <<>>]

IsNull(v) == v.t = "null"

IsInt(v) == v.t = "int"

IsString(v) == v.t = "string"

IsArray(v) == v.t = "array"

IsObject(v) == v.t = "object"

\* index of the first member called name, 0 when there is none
FindMember(obj, name) ==
    IF \E k \in 1..Len(obj.e) : obj.e[k].name = name
    THEN CHOOSE k \in 1..Len(obj.e) :
            /\ obj.e[k].name = name
            /\ \A j \in 1..(k - 1) : obj.e[j].name # name
    ELSE 0

HasMember(obj, name) == FindMember(obj, name) # 0

\* obj[name]: the value of the first member called name
GetMember(obj, name) == obj.e[FindMember(obj, name)].value

\* appends; an existing member of the same name is left in place
AddMember(obj, name, value) == JObj(Append(obj.e, Member(name, value)))

\* removes the first member called name: the last member takes its slot
RemoveMember(obj, name) ==
    LET m == FindMember(obj, name)
        last == Len(obj.e)
    IN  IF m = 0 THEN obj
        ELSE JObj([k \in 1..(last - 1) |-> IF k = m THEN obj.e[last] ELSE obj.e[k]])

\* obj[name] = value, on the first member called name
SetMember(obj, name, value) ==
    LET m == FindMember(obj, name)
    IN  JObj([obj.e EXCEPT ![m] = Member(name, value)])

\* a push that puts the value in front of the elements
PushFront(arr, v) == JArr(<<v>> \o arr.e)

PushBack(arr, v) == JArr(Append(arr.e, v))

\* an erase that also drops every element after the k-th
EraseFrom(arr, k) == JArr(SubSeq(arr.e, 1, k - 1))

Erase(arr, k) == JArr(SubSeq(arr.e, 1, k - 1) \o SubSeq(arr.e, k + 1, Len(arr.e)))

(***************************************************************************)
(* Text: the content of a file, or of a string that carries JSON.          *)
(* A text is empty, unparseable, or the serialisation of a JSON value.     *)
(***************************************************************************)
EmptyText == [kind |-> "empty", doc |-> JNull]

GarbageText == [kind |-> "garbage", doc |-> JNull]

\* Writer<StringBuffer>: the text that doc.Accept(writer) produces
Serialize(doc) == [kind |-> "json", doc |-> doc]

\* a path at which no file exists
Absent == [kind |-> "absent", doc |-> JNull]

\* Document::Parse: the document stays Null when the text does not parse
\* (an empty text is kParseErrorDocumentEmpty)
Parse(text) ==
    IF text.kind = "json"
    THEN [HasParseError |-> FALSE, doc |-> text.doc]
    ELSE [HasParseError |-> TRUE, doc |-> JNull]

\* the text that a string of the request holds
TextOf(str) ==
    CASE str = "{}" -> Serialize(JObj(<<>>))
      [] str = "{\"a\":1}" -> Serialize(JObj(<<Member("a", JInt(1))>>))
      [] str = "{\"a\":2}" -> Serialize(JObj(<<Member("a", JInt(2))>>))
      [] str = "{\"id\":1}" -> Serialize(JObj(<<Member("id", JInt(1))>>))
      [] str = "{\"id\":\"s\"}" -> Serialize(JObj(<<Member("id", JStr("s"))>>))
      [] str = "[1]" -> Serialize(JArr(<<JInt(1)>>))
      [] str = "" -> EmptyText
      [] OTHER -> GarbageText

(***************************************************************************)
(* API logic helpers.                                                      *)
(***************************************************************************)
\* the JSON body of a response; data is left out when null
create_api_response(status, message, data) ==
    [status |-> status, message |-> message,
     data |-> IF data = NoValue \/ IsNull(data) THEN NoValue ELSE data]

\* no response was written (the process ended first)
NoResponse == [code |-> 0, body |-> create_api_response("", "", NoValue)]

RECURSIVE MaxIdFrom(_, _, _)
MaxIdFrom(items, k, max_id) ==
    IF k > Len(items) THEN max_id
    ELSE LET item == items[k]
         IN  IF /\ HasMember(item, "id")
                /\ IsInt(GetMember(item, "id"))
                /\ GetMember(item, "id").i > max_id
             THEN MaxIdFrom(items, k + 1, GetMember(item, "id").i)
             ELSE MaxIdFrom(items, k + 1, max_id)

get_max_id(array) == IF IsArray(array) THEN MaxIdFrom(array.e, 1, 0) ELSE 0

RECURSIVE MergeFrom(_, _, _)
MergeFrom(merged_obj, ms, k) ==
    IF k > Len(ms) THEN merged_obj
    ELSE LET cleared == IF HasMember(merged_obj, ms[k].name)
                        THEN RemoveMember(merged_obj, ms[k].name)
                        ELSE merged_obj
         IN  MergeFrom(AddMember(cleared, ms[k].name, ms[k].value), ms, k + 1)

merge_json_objects(obj1, obj2) == MergeFrom(JObj(obj1.e), obj2.e, 1)

(***************************************************************************)
(* Format registry.                                                        *)
(***************************************************************************)
DataFileFormat(root_is_array, array_key) ==
    [root_is_array |-> root_is_array, array_key |-> array_key]

\* g_data_formats after load_all_data_formats
g_data_formats ==
    ("MarketProduct" :> DataFileFormat(FALSE, "products")) @@
    ("StoreProduct" :> DataFileFormat(FALSE, "products")) @@
    ("News" :> DataFileFormat(FALSE, "articles")) @@
    ("User@Account" :> DataFileFormat(FALSE, "Accounts"))

(***************************************************************************)
(* Outcomes of one request: the storage afterwards, the response written,  *)
(* whether the process ended, and the file operations performed.           *)
(***************************************************************************)
\* a return that leaves http_status_code at the 200 it is initialised with
ReplyWithInitialCode(files, code, status, message, data, ops) ==
    [fs |-> files, code |-> 200, body |-> create_api_response(status, message, data),
     crashed |-> FALSE, io |-> ops]

Reply(files, code, status, message, data, ops) ==
    [fs |-> files, code |-> code, body |-> create_api_response(status, message, data),
     crashed |-> FALSE, io |-> ops]

\* abort() from a failed RAPIDJSON_ASSERT, or a fault on a wild read or write
Crash(files, ops) ==
    [fs |-> files, code |-> NoResponse.code, body |-> NoResponse.body,
     crashed |-> TRUE, io |-> ops]

\* write_json_to_file(path, doc)
write_json_to_file(files, path, doc) == [files EXCEPT ![path] = Serialize(doc)]

(***************************************************************************)
(* The target array of a document.                                         *)
(***************************************************************************)
\* GET and DELETE: the document has the shape of its format
HasExpectedShape(doc, format) ==
    IF format.root_is_array
    THEN IsArray(doc)
    ELSE /\ IsObject(doc)
         /\ HasMember(doc, format.array_key)
         /\ IsArray(GetMember(doc, format.array_key))

\* POST and PUT: the document after the "initialize if not ..." steps
InitializedDoc(doc, format) ==
    IF format.root_is_array
    THEN IF ~IsArray(doc) THEN JArr(<<>>) ELSE doc
    ELSE LET d == IF ~IsObject(doc) THEN JObj(<<>>) ELSE doc
         IN  IF \/ ~HasMember(d, format.array_key)
                \/ ~IsArray(GetMember(d, format.array_key))
             THEN AddMember(d, format.array_key, JArr(<<>>))
             ELSE d

\* *target_array
TargetArray(doc, format) ==
    IF format.root_is_array THEN doc ELSE GetMember(doc, format.array_key)

\* the document after *target_array has been assigned arr
WithTargetArray(doc, format, arr) ==
    IF format.root_is_array THEN arr ELSE SetMember(doc, format.array_key, arr)

\* item.HasMember("id") && item["id"].IsInt() && item["id"].GetInt() == id
ItemHasId(item, id) ==
    /\ HasMember(item, "id")
    /\ IsInt(GetMember(item, "id"))
    /\ GetMember(item, "id").i = id

\* a search whose index starts at the first item and is never reset: an id that
\* matches nothing yields the first item
FindByIdOrFirst(array, id) ==
    IF \E k \in 1..Len(array.e) : ItemHasId(array.e[k], id)
    THEN CHOOSE k \in 1..Len(array.e) :
            /\ ItemHasId(array.e[k], id)
            /\ \A j \in 1..(k - 1) : ~ItemHasId(array.e[j], id)
    ELSE IF Len(array.e) > 0 THEN 1 ELSE 0

\* index of the first item with that id, 0 when there is none
FindById(array, id) ==
    IF \E k \in 1..Len(array.e) : ItemHasId(array.e[k], id)
    THEN CHOOSE k \in 1..Len(array.e) :
            /\ ItemHasId(array.e[k], id)
            /\ \A j \in 1..(k - 1) : ~ItemHasId(array.e[j], id)
    ELSE 0

(***************************************************************************)
(* handle_api_request.  Each handler yields the set of outcomes the build  *)
(* can produce: one outcome, except where the code runs into undefined     *)
(* behaviour.  bld is "debug" when RAPIDJSON_ASSERT is the C assert (the   *)
(* library's default) and "release" when NDEBUG compiles it away.          *)
(***************************************************************************)
BASE_STORAGE_DIRECTORY == "./uploaded_files/"

Op(name, path) == [op |-> name, path |-> path]

\* lines 384-392: a string, or two strings joined with "/"
file_path_str(r) ==
    IF IsString(r.file) THEN r.file.s
    ELSE IF /\ IsArray(r.file)
            /\ Len(r.file.e) = 2
            /\ IsString(r.file.e[1])
            /\ IsString(r.file.e[2])
         THEN r.file.e[1].s \o "/" \o r.file.e[2].s
         ELSE ""

\* lines 381-383
api_type(r) == IF IsString(r.Type) THEN r.Type.s ELSE ""

\* a GET that takes the item out of the file: the found item is erased from the
\* array and the document is written back
get_from_file_taking(r, format, files) ==
    LET full_path == BASE_STORAGE_DIRECTORY \o file_path_str(r)
        ex == <<Op("exists", full_path)>>
        rd == <<Op("exists", full_path), Op("read", full_path)>>
        parsed == Parse(files[full_path])
        file_doc == parsed.doc
        target_array == TargetArray(file_doc, format)
        k == FindById(target_array, r.Data_ID.i)
        taken == WithTargetArray(file_doc, format, Erase(target_array, k))
    IN  IF files[full_path] = Absent
        THEN {Reply(files, 404, "error", "Target file not found", NoValue, ex)}
        ELSE IF parsed.HasParseError
        THEN {Reply(files, 500, "error", "Could not parse JSON from file", NoValue, rd)}
        ELSE IF ~HasExpectedShape(file_doc, format)
        THEN {Reply(files, 400, "error", "File does not have the expected structure", NoValue, rd)}
        ELSE IF IsString(r.Data_ID) /\ r.Data_ID.s = "ALL"
        THEN {Reply(files, 200, "success", "Data retrieved successfully.", file_doc, rd)}
        ELSE IF IsInt(r.Data_ID)
        THEN IF k # 0
             THEN {Reply(write_json_to_file(files, full_path, taken), 200, "success",
                         "Item retrieved successfully.", target_array.e[k],
                         Append(rd, Op("write", full_path)))}
             ELSE {Reply(files, 404, "error", "Item not found.", NoValue, rd)}
        ELSE {Reply(files, 400, "error", "Invalid Data_ID format for GET operation.", NoValue, rd)}

\* a GET that compares the selector with the sentinel without regard to case
get_from_file_any_case(r, format, files) ==
    LET full_path == BASE_STORAGE_DIRECTORY \o file_path_str(r)
        ex == <<Op("exists", full_path)>>
        rd == <<Op("exists", full_path), Op("read", full_path)>>
        parsed == Parse(files[full_path])
        file_doc == parsed.doc
        target_array == TargetArray(file_doc, format)
        k == FindById(target_array, r.Data_ID.i)
    IN  IF files[full_path] = Absent
        THEN {Reply(files, 404, "error", "Target file not found", NoValue, ex)}
        ELSE IF parsed.HasParseError
        THEN {Reply(files, 500, "error", "Could not parse JSON from file", NoValue, rd)}
        ELSE IF ~HasExpectedShape(file_doc, format)
        THEN {Reply(files, 400, "error", "File does not have the expected structure", NoValue, rd)}
        ELSE IF IsString(r.Data_ID) /\ r.Data_ID.s \in {"ALL", "all"}
        THEN {Reply(files, 200, "success", "Data retrieved successfully.", file_doc, rd)}
        ELSE IF IsInt(r.Data_ID)
        THEN IF k # 0
             THEN {Reply(files, 200, "success", "Item retrieved successfully.", target_array.e[k], rd)}
             ELSE {Reply(files, 404, "error", "Item not found.", NoValue, rd)}
        ELSE {Reply(files, 400, "error", "Invalid Data_ID format for GET operation.", NoValue, rd)}

\* lines 432-500: the try block of the GET branch
get_from_file(r, format, files) ==
    LET full_path == BASE_STORAGE_DIRECTORY \o file_path_str(r)
        ex == <<Op("exists", full_path)>>
        rd == <<Op("exists", full_path), Op("read", full_path)>>
        parsed == Parse(files[full_path])
        file_doc == parsed.doc
        target_array == TargetArray(file_doc, format)
        k == FindById(target_array, r.Data_ID.i)
    IN  IF files[full_path] = Absent
        THEN {Reply(files, 404, "error", "Target file not found", NoValue, ex)}
        ELSE IF parsed.HasParseError
        THEN {Reply(files, 500, "error", "Could not parse JSON from file", NoValue, rd)}
        ELSE IF ~HasExpectedShape(file_doc, format)
        THEN {Reply(files, 400, "error", "File does not have the expected structure", NoValue, rd)}
        ELSE IF IsString(r.Data_ID) /\ r.Data_ID.s = "ALL"
        THEN {Reply(files, 200, "success", "Data retrieved successfully.", file_doc, rd)}
        ELSE IF IsInt(r.Data_ID)
        THEN IF k # 0
             THEN {Reply(files, 200, "success", "Item retrieved successfully.", target_array.e[k], rd)}
             ELSE {Reply(files, 404, "error", "Item not found.", NoValue, rd)}
        ELSE {Reply(files, 400, "error", "Invalid Data_ID format for GET operation.", NoValue, rd)}

\* a GET that loads the document the way POST does: an absent file is created
\* with the empty shape of the format before it is searched
handle_get_initializing(r, format, files) ==
    LET full_path == BASE_STORAGE_DIRECTORY \o file_path_str(r)
        created == write_json_to_file(files, full_path, InitializedDoc(JNull, format))
    IN  IF file_path_str(r) = ""
        THEN {Reply(files, 400, "error", "Filename not specified for GET operation.", NoValue, <<>>)}
        ELSE IF r.Data_ID = NoValue
        THEN {Reply(files, 400, "error", "Data_ID not specified for GET operation.", NoValue, <<>>)}
        ELSE IF files[full_path] = Absent
        THEN get_from_file(r, format, created)
        ELSE get_from_file(r, format, files)

handle_get(r, format, files) ==
    IF file_path_str(r) = ""
    THEN {Reply(files, 400, "error", "Filename not specified for GET operation.", NoValue, <<>>)}
    ELSE IF r.Data_ID = NoValue
    THEN {Reply(files, 400, "error", "Data_ID not specified for GET operation.", NoValue, <<>>)}
    ELSE get_from_file(r, format, files)

\* payload checks that do not look at HasParseError, the way the POST branch
\* treats the target file: an unparseable payload counts as an empty object
PayloadErrorNoParseCheck(r) ==
    LET surface == Parse(TextOf(r.Surface_content.s))
        main == Parse(TextOf(r.Main_content.s))
    IN  IF ~IsString(r.Surface_content) \/ ~IsString(r.Main_content)
        THEN "Missing 'Surface_content' or 'Main_content'."
        ELSE IF \/ (~surface.HasParseError /\ ~IsObject(surface.doc))
                \/ (~main.HasParseError /\ ~IsObject(main.doc))
        THEN "Content must be JSON objects in 'Surface_content' and 'Main_content'."
        ELSE ""

\* lines 510-534 and 594-618: the two payloads are strings holding JSON objects
PayloadError(r) ==
    LET surface == Parse(TextOf(r.Surface_content.s))
        main == Parse(TextOf(r.Main_content.s))
    IN  IF ~IsString(r.Surface_content) \/ ~IsString(r.Main_content)
        THEN "Missing 'Surface_content' or 'Main_content'."
        ELSE IF surface.HasParseError THEN "Invalid JSON in 'Surface_content'"
        ELSE IF main.HasParseError THEN "Invalid JSON in 'Main_content'"
        ELSE IF ~IsObject(surface.doc) \/ ~IsObject(main.doc)
        THEN "Content must be JSON objects in 'Surface_content' and 'Main_content'."
        ELSE ""

surface_doc(r) == Parse(TextOf(r.Surface_content.s)).doc

main_doc(r) == Parse(TextOf(r.Main_content.s)).doc

handle_post(r, format, files, bld) ==
    LET full_path == BASE_STORAGE_DIRECTORY \o file_path_str(r)
        exists == files[full_path] # Absent
        rd == IF exists
              THEN <<Op("exists", full_path), Op("read", full_path)>>
              ELSE <<Op("exists", full_path)>>
        wr == Append(rd, Op("write", full_path))
        \* the file is parsed when it has content; a parse error is not looked at
        parsed_doc == IF exists /\ files[full_path] # EmptyText
                      THEN Parse(files[full_path]).doc
                      ELSE JNull
        target_file_doc == InitializedDoc(parsed_doc, format)
        target_array == TargetArray(target_file_doc, format)
        merged == merge_json_objects(surface_doc(r), main_doc(r))
        new_id == get_max_id(target_array) + 1
        new_item == AddMember(merged, "id", JInt(new_id))
        stored == WithTargetArray(target_file_doc, format, PushBack(target_array, new_item))
        \* PushBack has moved new_item into the array: the local is Null afterwards
        moved_from == JNull
    IN  IF ~(IsString(r.Data_ID) /\ r.Data_ID.s = "auto")
        THEN {Reply(files, 400, "error", "Invalid 'Data_ID' for POST. Expected 'auto'.", NoValue, <<>>)}
        ELSE IF file_path_str(r) = ""
        THEN {Reply(files, 400, "error", "Filename not specified for POST operation.", NoValue, <<>>)}
        ELSE IF PayloadError(r) # ""
        THEN {Reply(files, 400, "error", PayloadError(r), NoValue, <<>>)}
        ELSE IF ~IsArray(target_array)
        THEN \* PushBack on a value that is not an array: the assertion aborts; without
             \* it the write goes through a pointer read out of a scalar and either
             \* faults or leaves the scalar in place, and the document is then written
             IF bld = "debug"
             THEN {Crash(files, rd)}
             ELSE {Crash(files, rd),
                   Reply(write_json_to_file(files, full_path, target_file_doc), 200, "success",
                         "Data saved successfully.", moved_from, wr)}
        ELSE IF bld = "debug"
        THEN \* line 578: new_item["id"] on the moved-from value fails IsObject()
             {Crash(write_json_to_file(files, full_path, stored), wr)}
        ELSE {Reply(write_json_to_file(files, full_path, stored), 200, "success",
                    "Data saved successfully.", moved_from, wr)}

\* lines 671-677: "ensure the ID is preserved and correct in the merged object"
RestoreId(final_merged, id_to_update) ==
    IF ~HasMember(final_merged, "id")
    THEN AddMember(final_merged, "id", JInt(id_to_update))
    ELSE IF /\ IsInt(GetMember(final_merged, "id"))
            /\ GetMember(final_merged, "id").i # id_to_update
         THEN SetMember(final_merged, "id", JInt(id_to_update))
         ELSE final_merged

\* a PUT that loads the document the way POST does: an absent file counts as an
\* empty document, which is written out before the search for the item fails
handle_put_creating(r, format, files, bld) ==
    LET full_path == BASE_STORAGE_DIRECTORY \o file_path_str(r)
        ex == <<Op("exists", full_path)>>
        rd == <<Op("exists", full_path), Op("read", full_path)>>
        wr == Append(rd, Op("write", full_path))
        id_to_update == r.Data_ID.i
        parsed == Parse(files[full_path])
        target_file_doc == InitializedDoc(parsed.doc, format)
        target_array == TargetArray(target_file_doc, format)
        k == FindById(target_array, id_to_update)
        current_item == target_array.e[k]
        temp_merged == merge_json_objects(current_item, surface_doc(r))
        final_merged == RestoreId(merge_json_objects(temp_merged, main_doc(r)), id_to_update)
        updated == WithTargetArray(target_file_doc, format,
                                   JArr([target_array.e EXCEPT ![k] = final_merged]))
    IN  IF file_path_str(r) = ""
        THEN {Reply(files, 400, "error", "Filename not specified for PUT operation.", NoValue, <<>>)}
        ELSE IF r.Data_ID = NoValue \/ ~IsInt(r.Data_ID)
        THEN {Reply(files, 400, "error", "Missing or invalid 'Data_ID' for PUT operation.", NoValue, <<>>)}
        ELSE IF PayloadError(r) # ""
        THEN {Reply(files, 400, "error", PayloadError(r), NoValue, <<>>)}
        ELSE IF files[full_path] = Absent
        THEN {Reply(write_json_to_file(files, full_path, InitializedDoc(JNull, format)), 404,
                    "error", "Item not found for update.", NoValue, Append(ex, Op("write", full_path)))}
        ELSE IF parsed.HasParseError
        THEN {Reply(files, 500, "error", "Could not parse JSON from file for PUT", NoValue, rd)}
        ELSE IF ~IsArray(target_array)
        THEN IF bld = "debug"
             THEN {Crash(files, rd)}
             ELSE {Crash(files, rd),
                   Reply(files, 404, "error", "Item not found for update.", NoValue, rd)}
        ELSE IF k = 0
        THEN {Reply(files, 404, "error", "Item not found for update.", NoValue, rd)}
        ELSE {Reply(write_json_to_file(files, full_path, updated), 200, "success",
                    "Item updated successfully.", final_merged, wr)}

\* a PUT that persists the document it initialised in memory before it finds
\* that the item is missing
handle_put_repairing(r, format, files, bld) ==
    LET full_path == BASE_STORAGE_DIRECTORY \o file_path_str(r)
        ex == <<Op("exists", full_path)>>
        rd == <<Op("exists", full_path), Op("read", full_path)>>
        wr == Append(rd, Op("write", full_path))
        id_to_update == r.Data_ID.i
        parsed == Parse(files[full_path])
        target_file_doc == InitializedDoc(parsed.doc, format)
        target_array == TargetArray(target_file_doc, format)
        k == FindById(target_array, id_to_update)
        current_item == target_array.e[k]
        temp_merged == merge_json_objects(current_item, surface_doc(r))
        final_merged == RestoreId(merge_json_objects(temp_merged, main_doc(r)), id_to_update)
        updated == WithTargetArray(target_file_doc, format,
                                   JArr([target_array.e EXCEPT ![k] = final_merged]))
    IN  IF file_path_str(r) = ""
        THEN {Reply(files, 400, "error", "Filename not specified for PUT operation.", NoValue, <<>>)}
        ELSE IF r.Data_ID = NoValue \/ ~IsInt(r.Data_ID)
        THEN {Reply(files, 400, "error", "Missing or invalid 'Data_ID' for PUT operation.", NoValue, <<>>)}
        ELSE IF PayloadError(r) # ""
        THEN {Reply(files, 400, "error", PayloadError(r), NoValue, <<>>)}
        ELSE IF files[full_path] = Absent
        THEN {Reply(files, 404, "error", "Target file not found for PUT", NoValue, ex)}
        ELSE IF parsed.HasParseError
        THEN {Reply(files, 500, "error", "Could not parse JSON from file for PUT", NoValue, rd)}
        ELSE IF ~IsArray(target_array)
        THEN \* Size() on a value that is not an array: the assertion aborts; without
             \* it the loop runs over whatever the scalar holds: no item, or a fault
             IF bld = "debug"
             THEN {Crash(files, rd)}
             ELSE {Crash(files, rd),
                   Reply(files, 404, "error", "Item not found for update.", NoValue, rd)}
        ELSE IF k = 0
        THEN {Reply(write_json_to_file(files, full_path, target_file_doc), 404, "error",
                    "Item not found for update.", NoValue, wr)}
        ELSE {Reply(write_json_to_file(files, full_path, updated), 200, "success",
                    "Item updated successfully.", final_merged, wr)}

handle_put(r, format, files, bld) ==
    LET full_path == BASE_STORAGE_DIRECTORY \o file_path_str(r)
        ex == <<Op("exists", full_path)>>
        rd == <<Op("exists", full_path), Op("read", full_path)>>
        wr == Append(rd, Op("write", full_path))
        id_to_update == r.Data_ID.i
        parsed == Parse(files[full_path])
        target_file_doc == InitializedDoc(parsed.doc, format)
        target_array == TargetArray(target_file_doc, format)
        k == FindById(target_array, id_to_update)
        current_item == target_array.e[k]
        temp_merged == merge_json_objects(current_item, surface_doc(r))
        final_merged == RestoreId(merge_json_objects(temp_merged, main_doc(r)), id_to_update)
        updated == WithTargetArray(target_file_doc, format,
                                   JArr([target_array.e EXCEPT ![k] = final_merged]))
    IN  IF file_path_str(r) = ""
        THEN {Reply(files, 400, "error", "Filename not specified for PUT operation.", NoValue, <<>>)}
        ELSE IF r.Data_ID = NoValue \/ ~IsInt(r.Data_ID)
        THEN {Reply(files, 400, "error", "Missing or invalid 'Data_ID' for PUT operation.", NoValue, <<>>)}
        ELSE IF PayloadError(r) # ""
        THEN {Reply(files, 400, "error", PayloadError(r), NoValue, <<>>)}
        ELSE IF files[full_path] = Absent
        THEN {Reply(files, 404, "error", "Target file not found for PUT", NoValue, ex)}
        ELSE IF parsed.HasParseError
        THEN {Reply(files, 500, "error", "Could not parse JSON from file for PUT", NoValue, rd)}
        ELSE IF ~IsArray(target_array)
        THEN \* Size() on a value that is not an array: the assertion aborts; without
             \* it the loop runs over whatever the scalar holds: no item, or a fault
             IF bld = "debug"
             THEN {Crash(files, rd)}
             ELSE {Crash(files, rd),
                   Reply(files, 404, "error", "Item not found for update.", NoValue, rd)}
        ELSE IF k = 0
        THEN {Reply(files, 404, "error", "Item not found for update.", NoValue, rd)}
        ELSE {Reply(write_json_to_file(files, full_path, updated), 200, "success",
                    "Item updated successfully.", final_merged, wr)}

handle_delete(r, format, files) ==
    LET full_path == BASE_STORAGE_DIRECTORY \o file_path_str(r)
        ex == <<Op("exists", full_path)>>
        rd == <<Op("exists", full_path), Op("read", full_path)>>
        wr == Append(rd, Op("write", full_path))
        parsed == Parse(files[full_path])
        target_file_doc == parsed.doc
        target_array == TargetArray(target_file_doc, format)
        k == FindById(target_array, r.Data_ID.i)
        cleared == WithTargetArray(target_file_doc, format, JArr(<<>>))
        erased == WithTargetArray(target_file_doc, format, Erase(target_array, k))
    IN  IF file_path_str(r) = ""
        THEN {Reply(files, 400, "error", "Filename not specified for DELETE operation.", NoValue, <<>>)}
        ELSE IF r.Data_ID = NoValue
        THEN {Reply(files, 400, "error", "Data_ID not specified for DELETE operation.", NoValue, <<>>)}
        ELSE IF files[full_path] = Absent
        THEN {Reply(files, 404, "error", "Target file not found", NoValue, ex)}
        ELSE IF parsed.HasParseError
        THEN {Reply(files, 500, "error", "Could not parse JSON from file for DELETE", NoValue, rd)}
        ELSE IF ~HasExpectedShape(target_file_doc, format)
        THEN {Reply(files, 400, "error", "File does not have the expected structure", NoValue, rd)}
        ELSE IF IsString(r.Data_ID) /\ r.Data_ID.s = "ALL"
        THEN {Reply(write_json_to_file(files, full_path, cleared), 200, "success",
                    "All items deleted", NoValue, wr)}
        ELSE IF IsInt(r.Data_ID)
        THEN IF k # 0
             THEN {Reply(write_json_to_file(files, full_path, erased), 200, "success",
                         "Item deleted", NoValue, wr)}
             ELSE {Reply(files, 404, "error", "Item not found.", NoValue, rd)}
        ELSE {Reply(files, 400, "error", "Invalid Data_ID format for DELETE operation.", NoValue, rd)}

\* a dispatcher that looks the format up inside the method branches and falls
\* back to the format of News when the Type is unknown
handle_api_request_default_format(r, files, bld) ==
    IF r.body = "unparseable"
    THEN {Reply(files, 400, "error", "Invalid JSON in request body.", NoValue, <<>>)}
    ELSE IF r.body # "object"
    THEN IF bld = "debug"
         THEN {Crash(files, <<>>)}
         ELSE {Crash(files, <<>>),
               Reply(files, 400, "error", "Missing or invalid 'Method' field in JSON request.", NoValue, <<>>)}
    ELSE IF ~IsString(r.Method)
    THEN {Reply(files, 400, "error", "Missing or invalid 'Method' field in JSON request.", NoValue, <<>>)}
    ELSE IF r.Method.s = "POST" /\ ~IsString(r.Data_ID)
    THEN {Reply(files, 400, "error", "Missing or invalid 'Data_ID' for POST. Expected 'auto'.", NoValue, <<>>)}
    ELSE LET format == IF api_type(r) \in DOMAIN g_data_formats
                       THEN g_data_formats[api_type(r)]
                       ELSE g_data_formats["News"]
         IN  CASE r.Method.s = "GET" -> handle_get(r, format, files)
               [] r.Method.s = "POST" -> handle_post(r, format, files, bld)
               [] r.Method.s = "PUT" -> handle_put(r, format, files, bld)
               [] r.Method.s = "DELETE" -> handle_delete(r, format, files)
               [] OTHER -> {Reply(files, 400, "error", "Unknown 'Method' specified in JSON request", NoValue, <<>>)}

handle_api_request(r, files, bld) ==
    IF r.body = "unparseable"
    THEN {Reply(files, 400, "error", "Invalid JSON in request body.", NoValue, <<>>)}
    ELSE IF r.body # "object"
    THEN \* HasMember on a body that is not an object: the assertion aborts; without
         \* it the member scan reads past the value and finds nothing, or faults
         IF bld = "debug"
         THEN {Crash(files, <<>>)}
         ELSE {Crash(files, <<>>),
               Reply(files, 400, "error", "Missing or invalid 'Method' field in JSON request.", NoValue, <<>>)}
    ELSE IF ~IsString(r.Method)
    THEN {Reply(files, 400, "error", "Missing or invalid 'Method' field in JSON request.", NoValue, <<>>)}
    ELSE IF r.Method.s = "POST" /\ ~IsString(r.Data_ID)
    THEN {Reply(files, 400, "error", "Missing or invalid 'Data_ID' for POST. Expected 'auto'.", NoValue, <<>>)}
    ELSE IF api_type(r) \notin DOMAIN g_data_formats
    THEN {Reply(files, 400, "error", "Unknown or unsupported API Type for file operations", NoValue, <<>>)}
    ELSE LET format == g_data_formats[api_type(r)]
         IN  CASE r.Method.s = "GET" -> handle_get(r, format, files)
               [] r.Method.s = "POST" -> handle_post(r, format, files, bld)
               [] r.Method.s = "PUT" -> handle_put(r, format, files, bld)
               [] r.Method.s = "DELETE" -> handle_delete(r, format, files)
               [] OTHER -> {Reply(files, 400, "error", "Unknown 'Method' specified in JSON request", NoValue, <<>>)}

\* do_session: one request read from the socket, one response written
do_session(r, files, bld) ==
    IF r.http_method = "OPTIONS"
    THEN {[fs |-> files, code |-> 200, body |-> NoResponse.body, crashed |-> FALSE, io |-> <<>>]}
    ELSE IF r.target = "/"
    THEN handle_api_request(r, files, bld)
    ELSE {Reply(files, 404, "error", "Resource not found.", NoValue, <<>>)}

(***************************************************************************)
(* Requests explored: the well-formed requests of each method, and the     *)
(* requests that differ from a well-formed one in a single field.          *)
(***************************************************************************)
Request(http_method, target, body, Method, Type, file, Data_ID, Surface_content, Main_content) ==
    [http_method |-> http_method, target |-> target, body |-> body,
     Method |-> Method, Type |-> Type, file |-> file, Data_ID |-> Data_ID,
     Surface_content |-> Surface_content, Main_content |-> Main_content]

\* before the first request
NoRequest == Request("", "", "", NoValue, NoValue, NoValue, NoValue, NoValue, NoValue)

ThePath == "./uploaded_files/News/today.json"

Files == {ThePath}

TheFile == JStr("News/today.json")

ItemIds == {JInt(k) : k \in 1..MaxItems}

Surfaces == {JStr("{\"a\":1}")}

Mains == {JStr("{\"a\":2}"), JStr("{\"id\":1}"), JStr("{\"id\":\"s\"}")}

\* what a field may hold instead of its well-formed value
OddTypes == {JStr("Bogus"), NoValue}

OddFiles == {NoValue, JArr(<<JStr("News"), JStr("today.json")>>)}

OddSelectors == {NoValue, JStr("all")}

OddPayloads == {NoValue, JStr("{oops"), JStr("[1]")}

ApiRequest(method, data_id, surface, main) ==
    Request("POST", "/", "object", JStr(method), JStr("News"), TheFile, data_id, surface, main)

\* r with one field replaced
OneFieldOff(r, selectors, payloads) ==
    {[r EXCEPT !.Type = v] : v \in OddTypes}
    \cup {[r EXCEPT !.file = v] : v \in OddFiles}
    \cup {[r EXCEPT !.Data_ID = v] : v \in selectors}
    \cup {[r EXCEPT !.Surface_content = v] : v \in payloads}
    \cup {[r EXCEPT !.Main_content = v] : v \in payloads}

GetRequests ==
    {ApiRequest("GET", d, NoValue, NoValue) : d \in ItemIds \cup {JStr("ALL")}}
    \cup OneFieldOff(ApiRequest("GET", JInt(1), NoValue, NoValue), OddSelectors, {})

DeleteRequests ==
    {ApiRequest("DELETE", d, NoValue, NoValue) : d \in ItemIds \cup {JStr("ALL")}}
    \cup OneFieldOff(ApiRequest("DELETE", JInt(1), NoValue, NoValue), OddSelectors, {})

PostRequests ==
    {ApiRequest("POST", JStr("auto"), s, m) : s \in Surfaces, m \in Mains}
    \cup OneFieldOff(ApiRequest("POST", JStr("auto"), JStr("{\"a\":1}"), JStr("{\"a\":2}")),
                     OddSelectors \cup {JInt(1)}, OddPayloads)

PutRequests ==
    {ApiRequest("PUT", d, s, m) : d \in ItemIds, s \in Surfaces, m \in Mains}
    \cup OneFieldOff(ApiRequest("PUT", JInt(1), JStr("{\"a\":1}"), JStr("{\"a\":2}")),
                     OddSelectors \cup {JStr("ALL")}, OddPayloads)

\* requests that name no method of the API, carry no JSON object, or miss the API
OtherRequests ==
    LET r == ApiRequest("GET", JStr("ALL"), NoValue, NoValue)
    IN  {[r EXCEPT !.Method = JStr("PATCH")],
         [r EXCEPT !.Method = NoValue],
         [r EXCEPT !.body = "unparseable"],
         [r EXCEPT !.body = "array"],
         [r EXCEPT !.target = "/favicon.ico"],
         [r EXCEPT !.http_method = "OPTIONS"]}

(***************************************************************************)
(* Storage at start-up: whatever earlier runs or the operator left there.  *)
(***************************************************************************)
InitialTexts ==
    {Absent, EmptyText, GarbageText,
     Serialize(JArr(<<>>)),
     Serialize(JObj(<<Member("articles", JNull)>>)),
     Serialize(JObj(<<Member("owner", JStr("x")),
                      Member("articles", JArr(<<JObj(<<Member("a", JInt(1))>>)>>))>>)),
     Serialize(JObj(<<Member("articles",
                             JArr(<<JObj(<<Member("b", JInt(1)), Member("id", JInt(1))>>)>>))>>))}

\* the items of the array a text holds under key (none when it holds no such array)
ItemsAt(text, key) ==
    LET doc == Parse(text).doc
    IN  IF /\ text.kind = "json"
           /\ IsObject(doc)
           /\ HasMember(doc, key)
           /\ IsArray(GetMember(doc, key))
        THEN GetMember(doc, key).e
        ELSE <<>>

(***************************************************************************)
(* The server: main's accept loop runs do_session on one connection at a   *)
(* time.                                                                   *)
(***************************************************************************)
\* the clients, and a client that has no connection to the server
Clients == 1..MaxClients

\* what a session holds of its outcome between its write and its response
Outcome(o) == [code |-> o.code, body |-> o.body, crashed |-> o.crashed, io |-> o.io]

IdleConn ==
    [at |-> "idle", r |-> NoRequest, loaded |-> Absent,
     out |-> Outcome(Crash(<<>>, <<>>)), created |-> 0]

\* no helper is being called on its own
NoCall == [obj1 |-> NoValue, obj2 |-> NoValue, merged_obj |-> NoValue]

\* the model's bounds on the storage
WithinBounds(files) ==
    /\ Len(Parse(files[ThePath]).doc.e) <= MaxRootMembers
    /\ \A key \in {"articles"} :
          LET items == ItemsAt(files[ThePath], key)
          IN  /\ Len(items) <= MaxItems
              /\ \A k \in 1..Len(items) : \A m \in 1..Len(items[k].e) :
                    items[k].e[m].value.i <= MaxId

Init ==
    /\ build \in {"debug", "release"}
    /\ fs \in [Files -> InitialTexts]
    /\ server = "running"
    /\ req = NoRequest
    /\ resp = NoResponse
    /\ io = <<>>
    /\ pc = "accept"
    /\ conn = [c \in Clients |-> IdleConn]
    /\ call = NoCall

\* one pass of the accept loop: the session runs to its end, or the process ends
Serve(r) ==
    /\ \E o \in do_session(r, fs, build) :
          /\ WithinBounds(o.fs)
          /\ fs' = o.fs
          /\ server' = IF o.crashed THEN "crashed" ELSE "running"
          /\ req' = r
          /\ resp' = [code |-> o.code, body |-> o.body]
          /\ io' = o.io
    /\ UNCHANGED <<build, pc, conn, call>>

Get ==
    /\ server = "running"
    /\ \E r \in GetRequests : Serve(r)

Post ==
    /\ server = "running"
    /\ \E r \in PostRequests : Serve(r)

Put ==
    /\ server = "running"
    /\ \E r \in PutRequests : Serve(r)

Delete ==
    /\ server = "running"
    /\ \E r \in DeleteRequests : Serve(r)

Other ==
    /\ server = "running"
    /\ \E r \in OtherRequests : Serve(r)

Next == Get \/ Post \/ Put \/ Delete \/ Other

Spec == Init /\ [][Next]_vars

(***************************************************************************)
(* Further specifications.                                                 *)
(***************************************************************************)
\* the server started on a storage directory that holds no document yet
InitFresh ==
    /\ Init
    /\ fs[ThePath] \in {Absent, EmptyText}

SpecFresh == InitFresh /\ [][Next]_vars

\* DELETE with the selector "ALL"
Clear ==
    /\ server = "running"
    /\ Serve(ApiRequest("DELETE", JStr("ALL"), NoValue, NoValue))

\* runs of creates on an array that starts empty and is emptied in between
NextCreateRuns == Post \/ Clear

SpecCreateRuns == InitFresh /\ [][NextCreateRuns]_vars

(***************************************************************************)
(* The accept loop step by step: clients connect at any time and wait in   *)
(* the listen queue; main accepts one connection and runs do_session on    *)
(* it, which reads the request, has handle_api_request load the file,      *)
(* write it, and then writes the response and closes the socket; only      *)
(* then does main return to accept.                                        *)
(***************************************************************************)
SessionRequests ==
    {ApiRequest("POST", JStr("auto"), s, m) : s \in Surfaces, m \in Mains}
    \cup {ApiRequest("GET", JStr("ALL"), NoValue, NoValue)}

\* a main that hands each session to a detached thread is back in accept at once
AtAcceptOrDetached == TRUE

\* main is in acceptor.accept(socket)
AtAccept == pc = "accept"

\* a client connects and sends its request
Connect(c) ==
    /\ server = "running"
    /\ conn[c].at = "idle"
    /\ \E r \in SessionRequests :
          conn' = [conn EXCEPT ![c].at = "waiting", ![c].r = r]
    /\ UNCHANGED <<build, fs, server, req, resp, io, pc, call>>

\* acceptor.accept(socket) returns; do_session reads the request
Accept(c) ==
    /\ server = "running"
    /\ AtAccept
    /\ conn[c].at = "waiting"
    /\ pc' = "do_session"
    /\ conn' = [conn EXCEPT ![c].at = "accepted"]
    /\ UNCHANGED <<build, fs, server, req, resp, io, call>>

\* handle_api_request reads the target file
Load(c) ==
    /\ server = "running"
    /\ conn[c].at = "accepted"
    /\ conn' = [conn EXCEPT ![c].at = "loaded", ![c].loaded = fs[ThePath]]
    /\ UNCHANGED <<build, fs, server, req, resp, io, pc, call>>

\* handle_api_request computes its result from what it read and writes the file
Store(c) ==
    /\ server = "running"
    /\ conn[c].at = "loaded"
    /\ \E o \in do_session(conn[c].r, [fs EXCEPT ![ThePath] = conn[c].loaded], build) :
          LET wrote == \E k \in 1..Len(o.io) : o.io[k].op = "write"
              files == IF wrote THEN [fs EXCEPT ![ThePath] = o.fs[ThePath]] ELSE fs
          IN  /\ WithinBounds(files)
              /\ fs' = files
              /\ conn' = [conn EXCEPT ![c].at = "stored", ![c].out = Outcome(o)]
    /\ UNCHANGED <<build, server, req, resp, io, pc, call>>

\* write_http_response, the socket is closed, and main loops back to accept
\* (or the process has ended before the response)
Respond(c) ==
    /\ server = "running"
    /\ conn[c].at = "stored"
    /\ LET o == conn[c].out
           done == IF conn[c].r.Method = JStr("POST") /\ o.code = 200 THEN 1 ELSE 0
       IN  /\ server' = IF o.crashed THEN "crashed" ELSE "running"
           /\ req' = conn[c].r
           /\ resp' = [code |-> o.code, body |-> o.body]
           /\ io' = o.io
           /\ conn' = [conn EXCEPT ![c] = [IdleConn EXCEPT !.created = conn[c].created + done]]
    /\ pc' = "accept"
    /\ UNCHANGED <<build, fs, call>>

NextSessions ==
    \E c \in Clients : Connect(c) \/ Accept(c) \/ Load(c) \/ Store(c) \/ Respond(c)

SpecSessions == InitFresh /\ [][NextSessions]_vars

(***************************************************************************)
(* merge_json_objects on its own: the two objects are what Parse makes of  *)
(* a payload text, an ordered member list in which a name may repeat       *)
(* ({"a":1,"a":2} parses to two members).                                  *)
(***************************************************************************)
MergeNames == {"a", "b", "c"}

MergeValues == {JInt(1), JInt(2), JInt(3), JInt(4)}

MergeMembers == {Member(n, v) : n \in MergeNames, v \in MergeValues}

FlatObjects == {JObj(ms) : ms \in UNION {[1..k -> MergeMembers] : k \in 0..MaxMembers}}

InitMerge ==
    /\ build = "release"
    /\ fs = [f \in Files |-> Absent]
    /\ server = "running"
    /\ req = NoRequest
    /\ resp = NoResponse
    /\ io = <<>>
    /\ pc = "accept"
    /\ conn = [c \in Clients |-> IdleConn]
    /\ call \in {[obj1 |-> a, obj2 |-> b, merged_obj |-> NoValue] : a, b \in FlatObjects}

\* the call returns; obj1 and obj2 are const references whose members were copied
Merge ==
    /\ call.merged_obj = NoValue
    /\ call' = [call EXCEPT !.merged_obj = merge_json_objects(call.obj1, call.obj2)]
    /\ UNCHANGED <<build, fs, server, req, resp, io, pc, conn>>

SpecMerge == InitMerge /\ [][Merge]_vars

(***************************************************************************)
(* The id allocation of a create on its own: get_max_id(target_array) + 1  *)
(* on arrays whose items carry any id, or none.                            *)
(***************************************************************************)
IdChoices == {NoValue, JStr("s"), JInt(-2), JInt(-1), JInt(1), JInt(2), JInt(INT_MAX)}

\* an item with that id, or without one
ItemWithId(v) ==
    IF v = NoValue THEN JObj(<<Member("a", JInt(1))>>) ELSE JObj(<<Member("id", v)>>)

IdArrays ==
    {JArr(xs) : xs \in UNION {[1..k -> {ItemWithId(v) : v \in IdChoices}] : k \in 0..MaxArrayLen}}

\* the process was stopped by an overflow trap (-ftrapv, a sanitizer)
Trapped == JStr("trapped")

\* int new_id = get_max_id(target_array) + 1: the addition overflows when the
\* maximum is INT_MAX, which is undefined; the builds wrap around or trap
new_id_outcomes(array) ==
    IF get_max_id(array) = INT_MAX
    THEN {JInt(INT_MIN), Trapped}
    ELSE {JInt(get_max_id(array) + 1)}

InitNextId ==
    /\ build = "release"
    /\ fs = [f \in Files |-> Absent]
    /\ server = "running"
    /\ req = NoRequest
    /\ resp = NoResponse
    /\ io = <<>>
    /\ pc = "accept"
    /\ conn = [c \in Clients |-> IdleConn]
    /\ call \in {[array |-> a, new_id |-> NoValue] : a \in IdArrays}

Allocate ==
    /\ call.new_id = NoValue
    /\ \E v \in new_id_outcomes(call.array) : call' = [call EXCEPT !.new_id = v]
    /\ UNCHANGED <<build, fs, server, req, resp, io, pc, conn>>

SpecNextId == InitNextId /\ [][Allocate]_vars

(***************************************************************************)
(* Vocabulary of the properties.                                           *)
(***************************************************************************)
\* the request reached handle_api_request with a JSON object as its body
Dispatched(r) == r.http_method # "OPTIONS" /\ r.target = "/" /\ r.body = "object"

MethodIs(r, method) == Dispatched(r) /\ r.Method = JStr(method)

\* the string holds a JSON object
PayloadIsObject(v) ==
    /\ v.t = "string"
    /\ TextOf(v.s).kind = "json"
    /\ TextOf(v.s).doc.t = "object"

\* a registered Type, a file reference, and two JSON-object payloads
WellFormedWrite(r) ==
    /\ r.Type.t = "string"
    /\ r.Type.s \in {"MarketProduct", "StoreProduct", "News", "User@Account"}
    /\ file_path_str(r) # ""
    /\ PayloadIsObject(r.Surface_content)
    /\ PayloadIsObject(r.Main_content)

WellFormedCreate(r) == MethodIs(r, "POST") /\ r.Data_ID = JStr("auto") /\ WellFormedWrite(r)

WellFormedUpdate(r) == MethodIs(r, "PUT") /\ r.Data_ID.t = "int" /\ WellFormedWrite(r)

\* the target array of Type News in the stored file
StoredItems == ItemsAt(fs[ThePath], "articles")

LastStored == StoredItems[Len(StoredItems)]

\* the value a reader of the stored item gets for "id": the first member of that name
IdOf(item) == GetMember(item, "id")

\* the id a create appended to its item: the last member
AllocatedId(item) == item.e[Len(item.e)].value

\* obj has a member of that name and value
HasField(obj, name, value) ==
    \E k \in 1..Len(obj.e) : obj.e[k].name = name /\ obj.e[k].value = value

(***************************************************************************)
(* C1. A successful create answers 200/"success" and its data field is the *)
(* newly stored item: every field of merge(Surface_content, Main_content)  *)
(* plus the allocated integer id.                                          *)
(***************************************************************************)
C1_CreateReturnsItem ==
    (WellFormedCreate(req) /\ resp.code = 200) =>
        /\ resp.body.status = "success"
        /\ StoredItems # <<>>
        /\ resp.body.data = LastStored
        /\ resp.body.data.t = "object"
        /\ HasField(resp.body.data, "id", AllocatedId(LastStored))

(***************************************************************************)
(* C2. Starting from an absent or empty file, after any sequence of        *)
(* requests every item of the target array has an integer id and no two    *)
(* items have the same id.                                                 *)
(***************************************************************************)
C2_IdsAreUniqueIntegers ==
    \A k \in 1..Len(StoredItems) :
        /\ HasMember(StoredItems[k], "id")
        /\ IdOf(StoredItems[k]).t = "int"
        /\ \A j \in 1..Len(StoredItems) :
              j # k => IdOf(StoredItems[j]) # IdOf(StoredItems[k])

(***************************************************************************)
(* C3. N successful creates against an initially empty target array        *)
(* allocate the ids 1..N in creation order, also after the array has been  *)
(* emptied with "ALL" and is filled again.                                 *)
(***************************************************************************)
C3_IdsInCreationOrder ==
    \A k \in 1..Len(StoredItems) : AllocatedId(StoredItems[k]) = JInt(k)

(***************************************************************************)
(* C4. A successful update of item k leaves a stored item whose id is the  *)
(* integer k, whatever id (another integer, or a value that is no integer) *)
(* the payloads carry.                                                     *)
(***************************************************************************)
C4_UpdateKeepsId ==
    (WellFormedUpdate(req) /\ resp.code = 200) =>
        /\ \E k \in 1..Len(StoredItems) : StoredItems[k] = resp.body.data
        /\ HasMember(resp.body.data, "id")
        /\ IdOf(resp.body.data) = JInt(req.Data_ID.i)

(***************************************************************************)
(* C5. The id of a created item is the id the allocator chose: an "id" of  *)
(* the payloads is overwritten, and the stored item has a single id field, *)
(* which holds the allocated id.                                           *)
(***************************************************************************)
C5_AllocatorDecidesId ==
    (WellFormedCreate(req) /\ resp.code = 200 /\ StoredItems # <<>>) =>
        /\ Cardinality({k \in 1..Len(LastStored.e) : LastStored.e[k].name = "id"}) = 1
        /\ IdOf(LastStored) = AllocatedId(LastStored)
        /\ IdOf(LastStored).t = "int"

(***************************************************************************)
(* C6. A GET, PUT or DELETE whose integer selector matches no item of an   *)
(* existing, well-formed file answers 404 and leaves the file as it was.   *)
(***************************************************************************)
\* the text is a document of the shape the Type News declares
WellFormedText(text) ==
    /\ text.kind = "json"
    /\ text.doc.t = "object"
    /\ \E k \in 1..Len(text.doc.e) : text.doc.e[k].name = "articles"
    /\ \A k \in 1..Len(text.doc.e) :
          text.doc.e[k].name = "articles" => text.doc.e[k].value.t = "array"

\* no item of the text's target array reads as the integer id
NoItemWithId(text, id) ==
    \A k \in 1..Len(ItemsAt(text, "articles")) :
        LET item == ItemsAt(text, "articles")[k]
        IN  \A m \in 1..Len(item.e) :
                (item.e[m].name = "id" /\ \A j \in 1..(m - 1) : item.e[j].name # "id")
                    => item.e[m].value # JInt(id)

\* r selects, by an integer, an item that the well-formed file lacks
SelectsMissingItem(r, text) ==
    /\ \/ MethodIs(r, "GET")
       \/ MethodIs(r, "DELETE")
       \/ (MethodIs(r, "PUT") /\ PayloadIsObject(r.Surface_content)
                              /\ PayloadIsObject(r.Main_content))
    /\ r.Type = JStr("News")
    /\ file_path_str(r) # ""
    /\ r.Data_ID.t = "int"
    /\ WellFormedText(text)
    /\ NoItemWithId(text, r.Data_ID.i)

C6_NotFoundLeavesFile ==
    [][SelectsMissingItem(req', fs[ThePath]) => (resp'.code = 404 /\ fs' = fs)]_vars

\* an update of an id that a file with items lacks was answered 404
C6_Witness ==
    /\ SelectsMissingItem(req, fs[ThePath])
    /\ MethodIs(req, "PUT")
    /\ StoredItems # <<>>
    /\ resp.code = 404

(***************************************************************************)
(* C7. A POST or PUT whose Surface_content or Main_content is not          *)
(* parseable JSON, or is JSON but no object, answers 400 before any file   *)
(* access: the target file is neither read, created nor written.           *)
(***************************************************************************)
MalformedPayload(r) ==
    /\ MethodIs(r, "POST") \/ MethodIs(r, "PUT")
    /\ ~PayloadIsObject(r.Surface_content) \/ ~PayloadIsObject(r.Main_content)

C7_MalformedPayloadRejected ==
    [][MalformedPayload(req') => (resp'.code = 400 /\ io' = <<>> /\ fs' = fs)]_vars

\* a create with an unparseable Surface_content on a path that holds no file
C7_Witness ==
    /\ MethodIs(req, "POST")
    /\ req.Data_ID = JStr("auto")
    /\ req.Surface_content = JStr("{oops")
    /\ resp.code = 400
    /\ fs[ThePath] = Absent

C9_ReadNeverMutates ==
    [][MethodIs(req', "GET") =>
          (fs' = fs /\ \A k \in 1..Len(io') : io'[k].op # "write")]_vars

\* a GET was refused on a file whose root is an array, and the file still is one
C9_Witness ==
    /\ MethodIs(req, "GET")
    /\ req.Type = JStr("News")
    /\ resp.code = 400
    /\ Len(io) = 2
    /\ fs[ThePath] = Serialize(JArr(<<>>))

(***************************************************************************)
(* C10. After any create, update or delete that answers success, the       *)
(* persisted document has exactly the root shape of its format (for News:  *)
(* an object whose "articles" field is an array), whatever the file held   *)
(* before, including an object whose "articles" field is not an array.     *)
(***************************************************************************)
C10_RootShapeAfterMutation ==
    (/\ MethodIs(req, "POST") \/ MethodIs(req, "PUT") \/ MethodIs(req, "DELETE")
     /\ req.Type = JStr("News")
     /\ resp.code = 200) => WellFormedText(fs[ThePath])

(***************************************************************************)
(* C11. After a successful DELETE with selector "ALL" the wrapping object  *)
(* still exists with its other fields and holds an empty array at          *)
(* array_key; a subsequent create into that file succeeds and allocates    *)
(* id 1.                                                                   *)
(***************************************************************************)
\* the well-formed creates among the requests explored
WellFormedCreates == {r \in PostRequests : WellFormedCreate(r)}

\* the document of after is that of before, but for an empty array under key
SameButEmptied(before, after, key) ==
    /\ after.t = "object"
    /\ Len(after.e) = Len(before.e)
    /\ \A k \in 1..Len(after.e) :
          /\ after.e[k].name = before.e[k].name
          /\ after.e[k].name # key => after.e[k].value = before.e[k].value
    /\ \E k \in 1..Len(after.e) : after.e[k].name = key /\ after.e[k].value = JArr(<<>>)

\* every create into the storage answers 200 and stores one item, allocated id 1
CreateAllocatesOne(files, bld) ==
    \A r \in WellFormedCreates : \A o \in do_session(r, files, bld) :
        /\ o.code = 200
        /\ Len(ItemsAt(o.fs[ThePath], "articles")) = 1
        /\ AllocatedId(ItemsAt(o.fs[ThePath], "articles")[1]) = JInt(1)

DeletedAll(r, code) == MethodIs(r, "DELETE") /\ r.Data_ID = JStr("ALL") /\ code = 200

C11_DeleteAllKeepsShape ==
    [][DeletedAll(req', resp'.code) =>
          /\ WellFormedText(fs'[ThePath])
          /\ SameButEmptied(fs[ThePath].doc, fs'[ThePath].doc, "articles")
          /\ CreateAllocatesOne(fs', build)]_vars

(***************************************************************************)
(* C12. No error terminates the process: every request handed to the       *)
(* dispatcher, whatever its fields and whatever the target file holds,     *)
(* ends in one structured response (status, message, optional data), and   *)
(* the server is then able to accept the next request; no request leaves   *)
(* it crashed.                                                             *)
(***************************************************************************)
\* do_session passed the request body to handle_api_request
HandedToDispatcher(r) == r.http_method \notin {"", "OPTIONS"} /\ r.target = "/"

StructuredResponse(response) ==
    /\ response.code # NoResponse.code
    /\ response.body.status \in {"success", "error"}
    /\ response.body.message # ""

C12_NoRequestEndsTheProcess ==
    HandedToDispatcher(req) => (server = "running" /\ StructuredResponse(resp))

(***************************************************************************)
(* C13. A request whose Type is not in the format registry is answered 400 *)
(* for every Method, before any filesystem access: no file is read,        *)
(* created or written.                                                     *)
(***************************************************************************)
UnknownType(r) == Dispatched(r) /\ api_type(r) \notin DOMAIN g_data_formats

C13_UnknownTypeRejected ==
    [][UnknownType(req') => (resp'.code = 400 /\ io' = <<>> /\ fs' = fs)]_vars

\* a read of an existing document was refused for its Type
C13_Witness ==
    /\ MethodIs(req, "GET")
    /\ req.Type = JStr("Bogus")
    /\ resp.code = 400
    /\ io = <<>>
    /\ StoredItems # <<>>

(***************************************************************************)
(* C14. Storage corruption on a read is a 500: a GET against an existing   *)
(* file that fails to parse, or that parses but whose root shape           *)
(* contradicts the format of its Type (the array_key field missing or not  *)
(* an array), answers 500 and leaves the file unchanged.                   *)
(***************************************************************************)
\* a registered Type, a file reference, and the selector "ALL" or an integer
WellFormedRead(r) ==
    /\ MethodIs(r, "GET")
    /\ api_type(r) \in DOMAIN g_data_formats
    /\ file_path_str(r) # ""
    /\ r.Data_ID = JStr("ALL") \/ r.Data_ID.t = "int"

\* the file exists and is not a document of the declared shape
Corrupted(text) == text # Absent /\ ~WellFormedText(text)

C14_CorruptionOnReadIs500 ==
    [][(WellFormedRead(req') /\ Corrupted(fs[ThePath])) =>
          (resp'.code = 500 /\ fs' = fs)]_vars

(***************************************************************************)
(* C15. A create against an existing, non-empty file whose content fails   *)
(* to parse as JSON fails with an error response (500), and the file's     *)
(* previous content is not overwritten.                                    *)
(***************************************************************************)
C15_CreateKeepsCorruptFile ==
    [][(WellFormedCreate(req') /\ fs[ThePath] = GarbageText) =>
          (resp'.code = 500 /\ resp'.body.status = "error" /\ fs' = fs)]_vars

(***************************************************************************)
(* C16. A wrong selector shape is a client error: a GET or DELETE whose    *)
(* Data_ID is neither the sentinel string nor an integer, and a PUT whose  *)
(* Data_ID is not an integer, answers 400 whatever the state of the target *)
(* file (absent, unparseable, mis-shaped or well-formed).                  *)
(***************************************************************************)
WrongSelector(r) ==
    \/ /\ MethodIs(r, "GET") \/ MethodIs(r, "DELETE")
       /\ r.Data_ID # JStr("ALL")
       /\ r.Data_ID.t # "int"
    \/ /\ MethodIs(r, "PUT")
       /\ r.Data_ID.t # "int"

C16_WrongSelectorIs400 == WrongSelector(req) => resp.code = 400

(***************************************************************************)
(* C17. Single active operation: the server handles requests strictly one  *)
(* at a time; the next connection is accepted only after the previous      *)
(* request's read-modify-write and response are complete, so the steps of  *)
(* two requests never interleave and no update is lost: K successful       *)
(* creates on one file with no delete in between leave K items in it.      *)
(***************************************************************************)
\* the clients whose session is running
InSession == {c \in Clients : conn[c].at \in {"accepted", "loaded", "stored"}}

RECURSIVE CreatedUpTo(_)
\* the successful creates of the clients 1..n
CreatedUpTo(n) == IF n = 0 THEN 0 ELSE conn[n].created + CreatedUpTo(n - 1)

C17_OneRequestAtATime ==
    /\ Cardinality(InSession) <= 1
    /\ InSession # {} => pc = "do_session"
    /\ (InSession = {} /\ server = "running") => Len(StoredItems) = CreatedUpTo(MaxClients)

\* a second create is in its session, after the first one's, while a client waits
C17_Witness ==
    \E c \in Clients : \E d \in Clients \ {c} :
        /\ conn[c].at = "stored"
        /\ conn[c].r.Method = JStr("POST")
        /\ conn[c].out.code = 200
        /\ conn[d].at = "waiting"
        /\ conn[d].created = 1
        /\ Len(StoredItems) = 2

(***************************************************************************)
(* C18. Update never creates a file: a PUT (and likewise a GET or DELETE)  *)
(* that targets a file which does not exist answers 404, and the file      *)
(* still does not exist afterwards.                                        *)
(***************************************************************************)
\* r passes the checks its method makes on the request before it looks for the file
TargetsFile(r) ==
    /\ api_type(r) \in DOMAIN g_data_formats
    /\ file_path_str(r) # ""
    /\ \/ (MethodIs(r, "GET") \/ MethodIs(r, "DELETE")) /\ r.Data_ID # NoValue
       \/ WellFormedUpdate(r)

C18_MissingFileStaysMissing ==
    [][((MethodIs(req', "PUT") \/ MethodIs(req', "GET") \/ MethodIs(req', "DELETE"))
          /\ fs[ThePath] = Absent) =>
             /\ fs'[ThePath] = Absent
             /\ TargetsFile(req') => resp'.code = 404]_vars

\* an update of a file that does not exist was answered 404
C18_Witness ==
    /\ WellFormedUpdate(req)
    /\ resp.code = 404
    /\ io = <<Op("exists", ThePath)>>
    /\ fs[ThePath] = Absent

(***************************************************************************)
(* C19. Status classification: every response produced for a request of    *)
(* the API (do_session, lines 816-823) has a status code in                *)
(* {200, 400, 404, 500}, and the status field of its body is "success"     *)
(* exactly when the code is 200 and "error" otherwise.                     *)
(***************************************************************************)
\* do_session answered the request with a JSON body
Answered == req.http_method \notin {"", "OPTIONS"} /\ server = "running"

C19_StatusClassification ==
    Answered =>
        /\ resp.code \in {200, 400, 404, 500}
        /\ resp.body.status = "success" <=> resp.code = 200
        /\ resp.body.status = "error" <=> resp.code # 200

\* a read of an unparseable file was answered 500 / "error"
C19_Witness ==
    /\ Answered
    /\ MethodIs(req, "GET")
    /\ resp.code = 500
    /\ resp.body.status = "error"
    /\ fs[ThePath] = GarbageText

(***************************************************************************)
(* C20. Merge precedence: merge(a, b) of two flat JSON objects yields an   *)
(* object whose key set is the union of the keys of a and b, where each    *)
(* key of b carries b's value and each key only in a carries a's value     *)
(* (merge({a:1,b:2},{b:3,c:4}) = {a:1,b:3,c:4}); neither input is          *)
(* modified.                                                               *)
(***************************************************************************)
KeysOf(obj) == {obj.e[k].name : k \in 1..Len(obj.e)}

\* the values obj gives for the key (one, unless the text repeated the key)
ValuesOf(obj, key) == {obj.e[k].value : k \in {j \in 1..Len(obj.e) : obj.e[j].name = key}}

MergedAsSpecified(a, b, merged) ==
    /\ merged.t = "object"
    /\ KeysOf(merged) = KeysOf(a) \cup KeysOf(b)
    /\ \A key \in KeysOf(b) : GetMember(merged, key) \in ValuesOf(b, key)
    /\ \A key \in KeysOf(a) \ KeysOf(b) : GetMember(merged, key) \in ValuesOf(a, key)

TheExample ==
    (/\ call.obj1 = JObj(<<Member("a", JInt(1)), Member("b", JInt(2))>>)
     /\ call.obj2 = JObj(<<Member("b", JInt(3)), Member("c", JInt(4))>>))
        => call.merged_obj = JObj(<<Member("a", JInt(1)), Member("b", JInt(3)), Member("c", JInt(4))>>)

C20_MergePrecedence ==
    [][/\ MergedAsSpecified(call.obj1, call.obj2, call'.merged_obj)
       /\ TheExample'
       /\ call'.obj1 = call.obj1
       /\ call'.obj2 = call.obj2]_vars

(***************************************************************************)
(* C21. Idempotence of read: two GET requests for the same existing id on  *)
(* the same file, with no mutating request in between, return identical    *)
(* items and identical status codes.                                       *)
(***************************************************************************)
\* the request was a GET by integer id
ReadOne(r) == MethodIs(r, "GET") /\ r.Data_ID.t = "int"

C21_ReadTwiceSame ==
    [][(ReadOne(req) /\ resp.code = 200 /\ req' = req) => resp' = resp]_vars

\* an item was read, and reading it again answers the same
C21_Witness ==
    /\ ReadOne(req)
    /\ resp.code = 200
    /\ \E k \in 1..Len(StoredItems) : StoredItems[k] = resp.body.data
    /\ \A o \in do_session(req, fs, build) : o.code = 200 /\ o.body = resp.body

(***************************************************************************)
(* C22. Update precedence: a successful update of item k stores and        *)
(* returns merge(merge(existing_item, Surface_content), Main_content) with *)
(* id k: a field named in Main_content takes Main_content's value,         *)
(* otherwise a field named in Surface_content takes Surface_content's      *)
(* value, and every other field of the existing item is kept unchanged.    *)
(***************************************************************************)
\* the object a payload string holds
PayloadObject(v) == TextOf(v.s).doc

\* the position of the first item that reads as the integer id, 0 when there is none
PositionOf(items, id) ==
    LET hits == {k \in 1..Len(items) : ValuesOf(items[k], "id") # {} /\ IdOf(items[k]) = JInt(id)}
    IN  IF hits = {} THEN 0 ELSE CHOOSE k \in hits : \A j \in hits : k <= j

\* new has the fields of old, overridden by surface, overridden again by main
FieldsByPrecedence(old, surface, main, new) ==
    /\ KeysOf(new) \ {"id"} = (KeysOf(old) \cup KeysOf(surface) \cup KeysOf(main)) \ {"id"}
    /\ \A key \in KeysOf(new) \ {"id"} :
          IF key \in KeysOf(main) THEN GetMember(new, key) \in ValuesOf(main, key)
          ELSE IF key \in KeysOf(surface) THEN GetMember(new, key) \in ValuesOf(surface, key)
          ELSE GetMember(new, key) \in ValuesOf(old, key)

\* the items before and after carry, at the position of id k, old and new
UpdatedAt(before, after, k, new) ==
    /\ PositionOf(before, k) # 0
    /\ Len(after) = Len(before)
    /\ after[PositionOf(before, k)] = new

C22_UpdatePrecedence ==
    [][(WellFormedUpdate(req') /\ resp'.code = 200) =>
          LET before == ItemsAt(fs[ThePath], "articles")
              after == ItemsAt(fs'[ThePath], "articles")
              new == resp'.body.data
          IN  /\ UpdatedAt(before, after, req'.Data_ID.i, new)
              /\ FieldsByPrecedence(before[PositionOf(before, req'.Data_ID.i)],
                                    PayloadObject(req'.Surface_content),
                                    PayloadObject(req'.Main_content), new)
              /\ ValuesOf(new, "id") = {JInt(req'.Data_ID.i)}]_vars

(***************************************************************************)
(* C23. next_id is one more than the maximum id present among the items    *)
(* whose id is an integer, for every array content (including arrays whose *)
(* integer ids are all negative, and arrays mixing items with and without  *)
(* an integer id); it is 1 when the array is empty or no item has an       *)
(* integer id.                                                             *)
(***************************************************************************)
\* the integer ids the items of the array read as
IntegerIds(array) ==
    {IdOf(array.e[k]).i : k \in {j \in 1..Len(array.e) :
        ValuesOf(array.e[j], "id") # {} /\ IdOf(array.e[j]).t = "int"}}

Maximum(ids) == CHOOSE m \in ids : \A n \in ids : n <= m

\* an id was allocated for an array whose maximum leaves room for one more
AllocatedBelowLimit ==
    /\ call.new_id \notin {NoValue, Trapped}
    /\ INT_MAX \notin IntegerIds(call.array)

C23_NextIdIsMaxPlusOne ==
    AllocatedBelowLimit =>
        IF IntegerIds(call.array) = {}
        THEN call.new_id = JInt(1)
        ELSE call.new_id = JInt(Maximum(IntegerIds(call.array)) + 1)


(***************************************************************************)
(* C29. The id a create allocates is strictly greater than every integer   *)
(* id present in the array, so it collides with none of them; this         *)
(* includes an array that holds the id 2147483647: the allocation does not *)
(* wrap around.                                                            *)
(***************************************************************************)
C29_AllocatedAboveAll ==
    (call.new_id # NoValue) =>
        /\ call.new_id.t = "int"
        /\ \A n \in IntegerIds(call.array) : call.new_id.i > n


(***************************************************************************)
(* C24. A successful delete by integer selector removes exactly the first  *)
(* item whose id equals the selector: every other item, later items with   *)
(* the same id included, stays with its content and in its order, and the  *)
(* result is persisted.                                                    *)
(***************************************************************************)
DeleteOne(r) ==
    /\ MethodIs(r, "DELETE")
    /\ r.Type = JStr("News")
    /\ file_path_str(r) # ""
    /\ r.Data_ID.t = "int"

\* after is before without its k-th element
WithoutAt(before, after, k) ==
    /\ k \in 1..Len(before)
    /\ after = SubSeq(before, 1, k - 1) \o SubSeq(before, k + 1, Len(before))

\* the root objects differ in the value of key at most
SameBut(before, after, key) ==
    /\ after.t = "object"
    /\ Len(after.e) = Len(before.e)
    /\ \A k \in 1..Len(after.e) :
          /\ after.e[k].name = before.e[k].name
          /\ after.e[k].name # key => after.e[k].value = before.e[k].value

C24_DeleteRemovesFirstMatch ==
    [][(DeleteOne(req') /\ resp'.code = 200) =>
          LET before == ItemsAt(fs[ThePath], "articles")
              after == ItemsAt(fs'[ThePath], "articles")
          IN  /\ WithoutAt(before, after, PositionOf(before, req'.Data_ID.i))
              /\ WellFormedText(fs'[ThePath])
              /\ SameBut(fs[ThePath].doc, fs'[ThePath].doc, "articles")
              /\ Op("write", ThePath) \in {io'[k] : k \in 1..Len(io')}]_vars

\* a delete by id succeeded and a later item with the same id is still stored
C24_Witness ==
    /\ DeleteOne(req)
    /\ resp.code = 200
    /\ PositionOf(StoredItems, req.Data_ID.i) # 0


(***************************************************************************)
(* C25. A create on a file that does not exist, or that exists with a root *)
(* shape that does not match the format of the Type, replaces the document *)
(* with the minimal empty shape of the format, appends the new item to it  *)
(* with id 1, and persists that document.                                  *)
(***************************************************************************)
\* the file is absent, or holds a JSON document of another root shape
AbsentOrMisShaped(text) ==
    \/ text = Absent
    \/ text.kind = "json" /\ ~WellFormedText(text)

\* the minimal shape of News holding one item, whose allocated id is 1
MinimalShapeWithFirstItem(text) ==
    /\ text.kind = "json"
    /\ text.doc.t = "object"
    /\ Len(text.doc.e) = 1
    /\ text.doc.e[1].name = "articles"
    /\ text.doc.e[1].value.t = "array"
    /\ Len(text.doc.e[1].value.e) = 1
    /\ text.doc.e[1].value.e[1].t = "object"
    /\ AllocatedId(text.doc.e[1].value.e[1]) = JInt(1)

C25_CreateInitialisesFile ==
    [][(WellFormedCreate(req') /\ AbsentOrMisShaped(fs[ThePath])) =>
          MinimalShapeWithFirstItem(fs'[ThePath])]_vars


(***************************************************************************)
(* C26. A GET whose Data_ID is the string "ALL" on a well-formed file      *)
(* returns the whole stored document with its native root shape, the       *)
(* wrapping object and all its fields, unchanged; the sentinel is          *)
(* case-sensitive: any other string, "all" for one, is rejected with 400.  *)
(***************************************************************************)
ReadByString(r) ==
    /\ MethodIs(r, "GET")
    /\ r.Type = JStr("News")
    /\ file_path_str(r) # ""
    /\ r.Data_ID.t = "string"

C26_AllIsTheOnlySentinel ==
    [][(ReadByString(req') /\ WellFormedText(fs[ThePath])) =>
          /\ fs' = fs
          /\ IF req'.Data_ID = JStr("ALL")
             THEN resp'.code = 200 /\ resp'.body.data = fs[ThePath].doc
             ELSE resp'.code = 400 /\ resp'.body.data = NoValue]_vars

\* "all" was answered 400 on a file with an owner field and an item, which the
\* same request with "ALL" gets back whole
C26_Witness ==
    /\ ReadByString(req)
    /\ req.Data_ID = JStr("all")
    /\ resp.code = 400
    /\ WellFormedText(fs[ThePath])
    /\ Len(fs[ThePath].doc.e) > 1
    /\ StoredItems # <<>>
    /\ \A o \in do_session([req EXCEPT !.Data_ID = JStr("ALL")], fs, build) :
          o.code = 200 /\ o.body.data = fs[ThePath].doc


(***************************************************************************)
(* C27. A request that ends with a status other than 200 leaves the        *)
(* storage exactly as it was: no file is created, rewritten or repaired by *)
(* a request answered 400, 404 or 500, even when the handler had           *)
(* initialised the document in memory before it failed.                    *)
(***************************************************************************)
C27_FailureLeavesStorage ==
    [][resp'.code \in {400, 404, 500} => fs' = fs]_vars

\* an update was answered 404 on a file whose root is an array, which the handler
\* had replaced in memory by the empty shape of News
C27_Witness ==
    /\ WellFormedUpdate(req)
    /\ resp.code = 404
    /\ io = <<Op("exists", ThePath), Op("read", ThePath)>>
    /\ fs[ThePath] = Serialize(JArr(<<>>))


(***************************************************************************)
(* C28. Mutations touch only the targeted item: on a well-formed file a    *)
(* successful create appends the new item at the end of the target array   *)
(* and leaves every existing item and their order unchanged; a successful  *)
(* update replaces the matched item at its position, keeps the length of   *)
(* the array and leaves every other item unchanged; the fields of the      *)
(* wrapping object other than array_key are unchanged by both.             *)
(***************************************************************************)
\* after is before with one more item at its end
AppendedTo(before, after) ==
    /\ Len(after) = Len(before) + 1
    /\ SubSeq(after, 1, Len(before)) = before

\* after is before but for the item at position k
ReplacedAt(before, after, k) ==
    /\ k \in 1..Len(before)
    /\ Len(after) = Len(before)
    /\ \A j \in 1..Len(before) : j # k => after[j] = before[j]

C28_OnlyTargetedItemChanges ==
    [][(/\ WellFormedCreate(req') \/ WellFormedUpdate(req')
        /\ WellFormedText(fs[ThePath])
        /\ resp'.code = 200) =>
          LET before == ItemsAt(fs[ThePath], "articles")
              after == ItemsAt(fs'[ThePath], "articles")
          IN  /\ SameBut(fs[ThePath].doc, fs'[ThePath].doc, "articles")
              /\ WellFormedCreate(req') => AppendedTo(before, after)
              /\ WellFormedUpdate(req') =>
                    ReplacedAt(before, after, PositionOf(before, req'.Data_ID.i))]_vars

\* a create was stored behind an item of a document that has an owner field
C28_Witness ==
    /\ WellFormedCreate(req)
    /\ resp.code = 200
    /\ Len(StoredItems) > 1
    /\ HasField(fs[ThePath].doc, "owner", JStr("x"))
    /\ StoredItems[1] = JObj(<<Member("a", JInt(1))>>)

====
